---- MODULE Spec2Model ----
(***************************************************************************)
(* Tool discovery and orchestration layer of ollama_MCP_bridge.            *)
(*                                                                         *)
(* Four orchestration entry points are modelled from the source:           *)
(*   "mcp"      prepare_mcp_tools.initialize_mcp_servers (in-process,      *)
(*              one exit stack per attempt, 30 s wait_for, cache written)  *)
(*   "safe"     prepare_safe.process_all_servers (one generated worker     *)
(*              process per provider, polled by the parent, cache written) *)
(*   "launcher" run_enhanced_agent.initialize_and_prepare driving          *)
(*              enhanced_mcp_agent.initialize_agent (retry loop, fallback) *)
(*   "main"     enhanced_mcp_agent.main driving initialize_agent           *)
(* plus the cache consumer of agent.py, which may load the cache file at   *)
(* any moment.                                                             *)
(*                                                                         *)
(* Specifications:                                                         *)
(*   Spec       all entry points, run after run                            *)
(*   FairSpec   Spec with whatever can run eventually running              *)
(*   IdemSpec   the preparation scripts run repeatedly, with a record of   *)
(*              the run before                                             *)
(*   SchedSpec  the two schedulers applied to name lists                   *)
(*   CatSpec    categorize_server and get_server_priority applied to names *)
(*   InstrSpec  enhance_agent_instruction applied to lists of tool names   *)
(***************************************************************************)
EXTENDS Integers, Sequences, FiniteSets, TLC

(***************************************************************************)
(* Bounds of the model.                                                    *)
(***************************************************************************)
MaxRuns == 2
MaxRetries == 1
MaxTools == 2

(***************************************************************************)
(* Provider names.  A name is a string; NameChars gives its characters so  *)
(* that categorize_server can do its substring tests.                      *)
(***************************************************************************)
Names == {"filesystem", "server-github", "slowtool"}
Ghost == "ghost"
AllNames == Names \cup {Ghost}

\* the names the schedulers are exercised on: names of the high- and the
\* medium-priority list, and names of neither list of several categories
SchedNames == AllNames \cup {"server-memory", "duckduckgo-mcp-server", "myfiles", "web-search"}

NameChars(n) ==
  CASE n = "filesystem"    -> <<"f","i","l","e","s","y","s","t","e","m">>
    [] n = "server-github" -> <<"s","e","r","v","e","r","-","g","i","t","h","u","b">>
    [] n = "slowtool"      -> <<"s","l","o","w","t","o","o","l">>
    [] n = "ghost"         -> <<"g","h","o","s","t">>
    [] n = "server-memory" -> <<"s","e","r","v","e","r","-","m","e","m","o","r","y">>
    [] n = "duckduckgo-mcp-server"
                           -> <<"d","u","c","k","d","u","c","k","g","o","-","m","c","p","-",
                                "s","e","r","v","e","r">>
    [] n = "myfiles"       -> <<"m","y","f","i","l","e","s">>
    [] n = "web-search"    -> <<"w","e","b","-","s","e","a","r","c","h">>
    [] OTHER               -> <<>>

UpperLetters == <<"A","B","C","D","E","F","G","H","I","J","K","L","M",
                  "N","O","P","Q","R","S","T","U","V","W","X","Y","Z">>
LowerLetters == <<"a","b","c","d","e","f","g","h","i","j","k","l","m",
                  "n","o","p","q","r","s","t","u","v","w","x","y","z">>

\* str.lower(), character by character
LowerChar(c) ==
  IF \E i \in 1..26 : UpperLetters[i] = c
  THEN LowerLetters[CHOOSE i \in 1..26 : UpperLetters[i] = c]
  ELSE c

Lower(s) == [i \in 1..Len(s) |-> LowerChar(s[i])]

\* Python's  kw in s  for strings
Contains(s, kw) ==
  \E i \in 1..(Len(s) - Len(kw) + 1) : SubSeq(s, i, i + Len(kw) - 1) = kw

\* the memory test taken before the search test, as in the priority table
categorize_memory_first(s) ==
  LET l == Lower(s) IN
  IF Contains(l, <<"f","i","l","e">>) \/ l = <<"f","i","l","e","s","y","s","t","e","m">>
  THEN "filesystem"
  ELSE IF Contains(l, <<"m","e","m","o","r","y">>) \/ Contains(l, <<"g","r","a","p","h">>)
  THEN "memory"
  ELSE IF \/ Contains(l, <<"d","u","c","k">>)
          \/ Contains(l, <<"s","e","a","r","c","h">>)
          \/ Contains(l, <<"f","i","r","e">>)
          \/ Contains(l, <<"c","r","a","w","l">>)
  THEN "search"
  ELSE IF Contains(l, <<"g","i","t","h","u","b">>) \/ Contains(l, <<"g","i","t">>)
  THEN "github"
  ELSE IF Contains(l, <<"b","r","o","w","s">>) \/ Contains(l, <<"p","l","a","y">>)
  THEN "browser"
  ELSE IF Contains(l, <<"m","a","i","l">>) \/ Contains(l, <<"g","m","a","i","l">>)
  THEN "email"
  ELSE IF Contains(l, <<"c","a","l","e","n","d","a","r">>)
          \/ Contains(l, <<"o","u","t","l","o","o","k">>)
  THEN "calendar"
  ELSE IF Contains(l, <<"a","i","r","b","n","b">>)
  THEN "airbnb"
  ELSE IF Contains(l, <<"e","l","e","v","e","n">>)
  THEN "elevenlabs"
  ELSE "other"

categorize_chars(s) ==
  LET l == Lower(s) IN
  IF Contains(l, <<"f","i","l","e">>) \/ l = <<"f","i","l","e","s","y","s","t","e","m">>
  THEN "filesystem"
  ELSE IF \/ Contains(l, <<"d","u","c","k">>)
          \/ Contains(l, <<"s","e","a","r","c","h">>)
          \/ Contains(l, <<"f","i","r","e">>)
          \/ Contains(l, <<"c","r","a","w","l">>)
  THEN "search"
  ELSE IF Contains(l, <<"m","e","m","o","r","y">>) \/ Contains(l, <<"g","r","a","p","h">>)
  THEN "memory"
  ELSE IF Contains(l, <<"g","i","t","h","u","b">>) \/ Contains(l, <<"g","i","t">>)
  THEN "github"
  ELSE IF Contains(l, <<"b","r","o","w","s">>) \/ Contains(l, <<"p","l","a","y">>)
  THEN "browser"
  ELSE IF Contains(l, <<"m","a","i","l">>) \/ Contains(l, <<"g","m","a","i","l">>)
  THEN "email"
  ELSE IF Contains(l, <<"c","a","l","e","n","d","a","r">>)
          \/ Contains(l, <<"o","u","t","l","o","o","k">>)
  THEN "calendar"
  ELSE IF Contains(l, <<"a","i","r","b","n","b">>)
  THEN "airbnb"
  ELSE IF Contains(l, <<"e","l","e","v","e","n">>)
  THEN "elevenlabs"
  ELSE "other"

categorize_server(n) == categorize_chars(NameChars(n))

\* a priority table without the entry of "other"
get_server_priority_no_other(cat) ==
  CASE cat = "filesystem" -> 1
    [] cat = "memory"     -> 2
    [] cat = "search"     -> 3
    [] cat = "github"     -> 4
    [] cat = "browser"    -> 5
    [] cat = "email"      -> 6
    [] cat = "calendar"   -> 7
    [] cat = "airbnb"     -> 8
    [] cat = "elevenlabs" -> 9
    [] OTHER              -> 100

get_server_priority(cat) ==
  CASE cat = "filesystem" -> 1
    [] cat = "memory"     -> 2
    [] cat = "search"     -> 3
    [] cat = "github"     -> 4
    [] cat = "browser"    -> 5
    [] cat = "email"      -> 6
    [] cat = "calendar"   -> 7
    [] cat = "airbnb"     -> 8
    [] cat = "elevenlabs" -> 9
    [] cat = "other"      -> 10
    [] OTHER              -> 100

(***************************************************************************)
(* Sequence helpers.                                                       *)
(***************************************************************************)
Range(s) == {s[i] : i \in 1..Len(s)}

\* list.remove(x): drops the first occurrence
RemoveFirst(s, x) ==
  IF x \notin Range(s) THEN s
  ELSE LET i == CHOOSE k \in 1..Len(s) : s[k] = x /\ \A j \in 1..(k-1) : s[j] # x
       IN SubSeq(s, 1, i - 1) \o SubSeq(s, i + 1, Len(s))

\* [x for x in s if x in keep]
RECURSIVE FilterIn(_, _)
FilterIn(s, keep) ==
  IF s = <<>> THEN <<>>
  ELSE (IF Head(s) \in keep THEN <<Head(s)>> ELSE <<>>) \o FilterIn(Tail(s), keep)

(***************************************************************************)
(* Priority scheduler of prepare_mcp_tools / prepare_safe: the names of    *)
(* the high-priority list first, then those of the medium-priority list,   *)
(* then whatever is left of the copy, in its order.                        *)
(***************************************************************************)
high_priority == <<"filesystem", "server-memory">>
medium_priority == <<"mcp-server-firecrawl", "duckduckgo-mcp-server", "server-github">>

\* one  for name in tier: if name in copy: append, remove  loop;
\* st = [out, copy]
RECURSIVE TierLoop(_, _)
TierLoop(tier, st) ==
  IF tier = <<>> THEN st
  ELSE LET name == Head(tier) IN
       TierLoop(Tail(tier),
                IF name \in Range(st.copy)
                THEN [out |-> Append(st.out, name), copy |-> RemoveFirst(st.copy, name)]
                ELSE st)

Prioritize(server_names) ==
  LET h == TierLoop(high_priority, [out |-> <<>>, copy |-> server_names])
      m == TierLoop(medium_priority, h)
  IN m.out \o m.copy

(***************************************************************************)
(* Scheduler of initialize_agent: a stable sort on the category priority.  *)
(***************************************************************************)
\* get_server_priority(categorize_server(name)) of every name of the model
PriorityOf == [n \in SchedNames |-> get_server_priority(categorize_server(n))]

Prio(n) == PriorityOf[n]

RECURSIVE InsertStable(_, _)
InsertStable(sorted, n) ==
  IF sorted = <<>> THEN <<n>>
  ELSE IF Prio(Head(sorted)) <= Prio(n)
       THEN <<Head(sorted)>> \o InsertStable(Tail(sorted), n)
       ELSE <<n>> \o sorted

RECURSIVE SortByPriority(_)
SortByPriority(s) ==
  IF s = <<>> THEN <<>>
  ELSE InsertStable(SortByPriority(SubSeq(s, 1, Len(s) - 1)), s[Len(s)])

(***************************************************************************)
(* Configuration.  A loaded configuration is either a mapping (shape       *)
(* "dict") whose "mcpServers" entries are kept in file order, or a JSON    *)
(* document of another shape ("notdict", e.g. a top-level array), on which *)
(* config.get raises.  An entry of kind "nokey" lacks the command key.     *)
(***************************************************************************)
CfgEmpty == [shape |-> "dict", entries |-> <<>>]
CfgAll == [shape |-> "dict",
           entries |-> << [name |-> "slowtool", kind |-> "ok"],
                          [name |-> "filesystem", kind |-> "ok"] >>]
CfgNoKey == [shape |-> "dict",
             entries |-> << [name |-> "server-github", kind |-> "ok"],
                            [name |-> "filesystem", kind |-> "nokey"] >>]
CfgNotDict == [shape |-> "notdict", entries |-> <<>>]

\* what may be found at the configuration path
FileMissing == [shape |-> "missing", entries |-> <<>>]
FileMalformed == [shape |-> "malformed", entries |-> <<>>]
ConfigFiles == {FileMissing, FileMalformed, CfgEmpty, CfgAll, CfgNoKey, CfgNotDict}

\* json.load of the file, {"mcpServers": {}} on any exception
load_mcp_config(file) ==
  IF file.shape \in {"missing", "malformed"} THEN CfgEmpty ELSE file

\* list(config.get('mcpServers', {}).keys())
ConfigKeys(cfg) == [i \in 1..Len(cfg.entries) |-> cfg.entries[i].name]

EntryKind(cfg, n) ==
  LET i == CHOOSE k \in 1..Len(cfg.entries) : cfg.entries[k].name = n
  IN cfg.entries[i].kind

\* the server_names argument: <<>> stands for None / no names
Requests == { <<>>, <<"slowtool", "ghost", "filesystem">>, <<"ghost">> }

\* --servers of run_enhanced_agent (nargs='*'): a name may be given twice
LauncherRequests == Requests \cup { <<"filesystem", "filesystem">> }

(***************************************************************************)
(* Tools.  A tool record carries its name and the provider that defined    *)
(* it (standing for its description and parameter schema).                 *)
(***************************************************************************)
Tool(n, p) == [name |-> n, src |-> p]

\* what a provider answers to the tool catalog request
Catalog(p) ==
  CASE p = "filesystem"    -> << Tool("read_file", p), Tool("search", p) >>
    [] p = "server-github" -> << Tool("search", p), Tool("create_issue", p) >>
    [] p = "slowtool"      -> << Tool("search", p) >>
    [] OTHER               -> <<>>

\* tools=[get_weather, list_files] of enhanced_mcp_agent.root_agent and agent.py
BuiltinTools == << Tool("get_weather", "builtin"), Tool("list_files", "builtin") >>

\* tools of fallback_agent.root_agent
FallbackTools == << Tool("get_weather", "fallback"), Tool("list_files", "fallback"),
                    Tool("read_file_content", "fallback"),
                    Tool("write_file_content", "fallback"),
                    Tool("create_dir", "fallback"), Tool("search_for_files", "fallback") >>

(***************************************************************************)
(* What one provider does in one connection attempt:                       *)
(*   "tools"   answers with its catalog                                    *)
(*   "empty"   answers with an empty catalog                               *)
(*   "refuse"  the process fails to start (from_server raises, no session) *)
(*   "proto"   the process starts, the handshake raises                    *)
(*   "hang"    the process starts and never answers                        *)
(***************************************************************************)
Behaviours == {"tools", "empty", "refuse", "proto", "hang"}

\* the provider subprocess is running once from_server has launched it
Launched(b) == b # "refuse"

\* the tools MCPToolset.from_server hands back
Answer(p, b) == IF b = "tools" THEN Catalog(p) ELSE <<>>

(***************************************************************************)
(* The all_tools dict: a sequence of [name, tools] in insertion order.     *)
(***************************************************************************)
DictKeys(d) == {d[i].name : i \in 1..Len(d)}

DictSet(d, k, v) ==
  IF k \in DictKeys(d)
  THEN [i \in 1..Len(d) |-> IF d[i].name = k THEN [name |-> k, tools |-> v] ELSE d[i]]
  ELSE Append(d, [name |-> k, tools |-> v])

RECURSIVE Flatten(_)
Flatten(d) == IF d = <<>> THEN <<>> ELSE Head(d).tools \o Flatten(Tail(d))

(***************************************************************************)
(* The cache file as JSON text: a sequence of tokens.  json.dump writes    *)
(* the members of the dict in insertion order, each provider name followed *)
(* by the array of its tool schemas; json.load reads the members back in   *)
(* text order into a new dict.                                             *)
(***************************************************************************)
Punct(t) == [t |-> t, v |-> [name |-> "", src |-> ""]]

KeyTok(k) == [t |-> "key", v |-> [name |-> k, src |-> ""]]

ToolTok(tool) == [t |-> "tool", v |-> tool]

\* one  "name": [schema, ...]  member
JsonMember(m) ==
  <<KeyTok(m.name), Punct("arr_open")>>
    \o [i \in 1..Len(m.tools) |-> ToolTok(m.tools[i])]
    \o <<Punct("arr_close")>>

RECURSIVE JsonMembers(_)
JsonMembers(d) == IF d = <<>> THEN <<>> ELSE JsonMember(Head(d)) \o JsonMembers(Tail(d))

\* a dump that stops after the first member
JsonDumpFirstMember(d) ==
  <<Punct("obj_open")>> \o JsonMembers(IF d = <<>> THEN d ELSE <<Head(d)>>) \o <<Punct("obj_close")>>

\* json.dump(all_tools, f, indent=2)
JsonDump(d) == <<Punct("obj_open")>> \o JsonMembers(d) \o <<Punct("obj_close")>>

\* the decoder: i is the position in the text, d the dict built so far,
\* key and acc the member being read
RECURSIVE JsonParse(_, _, _, _, _)
JsonParse(toks, i, d, key, acc) ==
  IF i > Len(toks) THEN d
  ELSE CASE toks[i].t = "key"       -> JsonParse(toks, i + 1, d, toks[i].v.name, <<>>)
         [] toks[i].t = "tool"      -> JsonParse(toks, i + 1, d, key, Append(acc, toks[i].v))
         [] toks[i].t = "arr_close" -> JsonParse(toks, i + 1, DictSet(d, key, acc), key, <<>>)
         [] toks[i].t = "obj_close" -> d
         [] OTHER                   -> JsonParse(toks, i + 1, d, key, acc)

\* tool_cache = json.load(f)
JsonLoad(text) == JsonParse(text, 1, <<>>, "", <<>>)

AbsentFile == [state |-> "absent", data |-> <<>>, run |-> 0]

\* what a load of the file gives: the parsed mapping, nothing when the file
\* is absent or does not parse
json_load(file) == IF file.state = "complete" THEN JsonLoad(file.data) ELSE <<>>

\* the consumer has not loaded the cache
Unread == [state |-> "unread", data |-> <<>>]

VARIABLES
  runs,          \* orchestration runs started so far
  strategy,      \* which entry point the current run executes
  config,        \* the configuration the run loaded
  server_names,  \* the resolved provider names of the run
  pc,            \* control location of the orchestrator
  sched,         \* prioritized_servers / sorted_server_names
  idx,           \* position of the loop over sched
  behav,         \* what the provider of the attempt in flight does
  attempts,      \* names a connection attempt was initiated for, in order
  results,       \* one record per attempt that has returned
  all_tools,     \* the all_tools dict of the preparation scripts
  session,       \* per provider: "none", "open" or "closed"
  cacheFile,     \* mcp_tools_cache.json
  prevCache,     \* the cache file as it was when the run's persist began
  persisted,     \* the run's json.dump of the cache completed
  worker,        \* the generated worker process of prepare_safe
  deadline,      \* the parent's 120 s have elapsed
  scriptFile,    \* temp_connect_<name>.py of the attempt in flight exists
  resultFile,    \* temp_result_<name>.json of the attempt in flight
  ignore_errors, \* initialize_and_prepare argument
  max_retries,   \* initialize_and_prepare argument
  retry_count,   \* initialize_and_prepare local
  exit_stack,    \* initialize_and_prepare local: "None" or "stack"
  waits,         \* the backoff sleeps of initialize_and_prepare, in order
  agent_tools,   \* enhanced_mcp_agent.root_agent.tools (module level)
  root_agent,    \* which agent enhanced_mcp_agent.root_agent names
  active_connections, \* enhanced_mcp_agent.active_connections: <<name, call, attempt>>
  log,           \* messages the launcher logged
  readObs,       \* what the cache consumer last found in the cache file
  tool_list,     \* the consumer's tool list after its last load
  mcp_tools,     \* agent.py: the tools the consumer built from the cache
  consumer_log,  \* what the consumer's load of the cache logged
  server_name,   \* categorize_server argument, as characters
  server_category, \* what categorize_server returned for it
  server_priority, \* what get_server_priority returned for the category
  lastRun,       \* the preparation run before the current one, as it ended
  args,          \* the command line of the run
  error,         \* the exception that ended the process, if one did
  last_error,    \* initialize_and_prepare local
  available_tools, \* names of root_agent.tools, in the order they were added
  instruction    \* root_agent.instruction, as the sequence of its parts

vars == << runs, strategy, config, server_names, pc, sched, idx, behav, attempts,
           results, all_tools, session, cacheFile, prevCache, persisted, worker,
           deadline, scriptFile, resultFile, ignore_errors, max_retries,
           retry_count, exit_stack, waits, agent_tools, root_agent,
           active_connections, log, readObs, tool_list, mcp_tools, consumer_log,
           server_name, server_category, server_priority, lastRun,
           args, error, last_error, available_tools, instruction >>

prepVars == << all_tools >>
cacheVars == << cacheFile, prevCache, persisted >>
workerVars == << worker, deadline, scriptFile, resultFile >>
launcherVars == << ignore_errors, max_retries, retry_count, exit_stack, waits,
                   agent_tools, root_agent, active_connections, log, last_error >>
mainVars == << args, error >>

\* an exception: its kind and, for one raised by initialize_agent, the
\* number of the initialisation attempt that raised it
Exc(kind, k) == <<kind, k>>
NoError == Exc("none", 0)

\* the command line: --servers, --safe-mode, --fallback-only
Args(servers, safe, fbonly) ==
  [servers |-> servers, safe_mode |-> safe, fallback_only |-> fbonly]
readerVars == << readObs, tool_list, mcp_tools, consumer_log >>
instrVars == << available_tools, instruction >>
catVars == << server_name, server_category, server_priority, instrVars >>

\* no preparation run has ended before the current one
NoRun == [strategy |-> "none", config |-> CfgEmpty, server_names |-> <<>>,
          results |-> <<>>, saved |-> "skipped", cache |-> {}]

\* all_tools[server_name] = tools, whatever tools is
AggregateAlways(d, k, v) == DictSet(d, k, v)

\* if tools and server_name not in the cache file: all_tools[server_name] = tools
AggregateIfNew(d, k, v) ==
  IF v # <<>> /\ k \notin DictKeys(json_load(cacheFile)) THEN DictSet(d, k, v) ELSE d

\* if tools: all_tools[server_name] = tools
Aggregate(d, k, v) == IF v # <<>> THEN DictSet(d, k, v) ELSE d

NoSessions == [n \in Names |-> "none"]

\* the state of the orchestration before any run
InitRun ==
  /\ runs = 0
  /\ strategy = "none"
  /\ config = CfgEmpty
  /\ server_names = <<>>
  /\ pc = "idle"
  /\ sched = <<>>
  /\ idx = 1
  /\ behav = "none"
  /\ attempts = <<>>
  /\ results = <<>>
  /\ all_tools = <<>>
  /\ session = NoSessions
  /\ cacheFile = AbsentFile
  /\ prevCache = AbsentFile
  /\ persisted = FALSE
  /\ worker = "none"
  /\ deadline = FALSE
  /\ scriptFile = FALSE
  /\ resultFile = "absent"
  /\ ignore_errors = TRUE
  /\ max_retries = 0
  /\ retry_count = 0
  /\ exit_stack = "None"
  /\ waits = <<>>
  /\ agent_tools = BuiltinTools
  /\ root_agent = "enhanced"
  /\ active_connections = {}
  /\ log = {}
  /\ readObs = Unread
  /\ tool_list = <<>>
  /\ mcp_tools = <<>>
  /\ consumer_log = {}
  /\ lastRun = NoRun
  /\ args = Args(<<>>, FALSE, FALSE)
  /\ error = NoError
  /\ last_error = NoError

Init ==
  /\ InitRun
  /\ server_name = <<>>
  /\ server_category = "none"
  /\ server_priority = 0
  /\ available_tools = <<>>
  /\ instruction = <<>>

\* a process has ended (or none was started): the next run may start
Terminal == pc \in {"idle", "done", "crashed", "interrupted"}

\* a fresh process: everything but the files on disk starts over
FreshProcess(strat, cfg) ==
  /\ runs' = runs + 1
  /\ strategy' = strat
  /\ config' = cfg
  /\ behav' = "none"
  /\ attempts' = <<>>
  /\ results' = <<>>
  /\ all_tools' = <<>>
  /\ session' = NoSessions
  /\ prevCache' = cacheFile
  /\ persisted' = FALSE
  /\ worker' = "none"
  /\ deadline' = FALSE
  /\ scriptFile' = FALSE
  /\ resultFile' = "absent"
  /\ retry_count' = 0
  /\ exit_stack' = "None"
  /\ waits' = <<>>
  /\ agent_tools' = BuiltinTools
  /\ root_agent' = "enhanced"
  /\ active_connections' = {}
  /\ log' = {}
  /\ last_error' = NoError
  /\ readObs' = Unread
  /\ tool_list' = <<>>
  /\ mcp_tools' = <<>>
  /\ consumer_log' = {}

\* [name for name in server_names if name in config.get('mcpServers', {})]
ResolveAllOrNothing(cfg, req) ==
  IF req = <<>> THEN ConfigKeys(cfg)
  ELSE IF Range(req) \subseteq Range(ConfigKeys(cfg)) THEN req ELSE <<>>

Resolve(cfg, req) ==
  IF req = <<>> THEN ConfigKeys(cfg) ELSE FilterIn(req, Range(ConfigKeys(cfg)))

(***************************************************************************)
(* prepare_mcp_tools.initialize_mcp_servers and                            *)
(* prepare_safe.process_all_servers, up to the first connection attempt.   *)
(***************************************************************************)
PrepRun(strat, file, req) ==
  /\ Terminal
  /\ runs < MaxRuns
  /\ FreshProcess(strat, load_mcp_config(file))
  /\ LET cfg == load_mcp_config(file) IN
     IF cfg.shape # "dict"
     THEN \* config.get raises AttributeError, which nothing catches
          /\ pc' = "crashed"
          /\ server_names' = <<>>
          /\ sched' = <<>>
     ELSE /\ server_names' = Resolve(cfg, req)
          /\ sched' = Prioritize(Resolve(cfg, req))
          /\ pc' = IF Resolve(cfg, req) = <<>> THEN "done" ELSE "connect"
  /\ error' = IF load_mcp_config(file).shape # "dict"
              THEN Exc("AttributeError", 0) ELSE NoError
  /\ args' = Args(req, FALSE, FALSE)
  /\ idx' = 1
  /\ UNCHANGED << cacheFile, ignore_errors, max_retries >>
  /\ UNCHANGED catVars

StartPrep(strat, file, req) ==
  /\ PrepRun(strat, file, req)
  /\ UNCHANGED lastRun

\* the record kept of an attempt that has returned
Result(n, tools, timedOut, sess, w) ==
  [name |-> n, tools |-> tools, timeout |-> timedOut, session |-> sess, worker |-> w]

\* where the loop over sched goes after the attempt at position idx
AfterAttempt == IF idx = Len(sched) THEN "persist" ELSE "connect"

(***************************************************************************)
(* prepare_mcp_tools.connect_to_mcp_server                                 *)
(***************************************************************************)
\* the state of the attempt's session when connect_to_mcp_server returns
MCPSessionAtReturn(b) ==
  CASE b \in {"tools", "empty"} -> "closed"   \* line 89
    [] b = "hang"               -> "closed"   \* line 68
    [] b = "proto"              -> "open"     \* lines 92-94: no aclose
    [] OTHER                    -> "none"

MCPConnectBegin ==
  /\ strategy = "mcp"
  /\ pc = "connect"
  /\ LET n == sched[idx] IN
     /\ attempts' = Append(attempts, n)
     /\ IF EntryKind(config, n) = "nokey"
        THEN \* KeyError inside the try: return []
             /\ results' = Append(results, Result(n, <<>>, FALSE, "none", "none"))
             /\ all_tools' = Aggregate(all_tools, n, <<>>)
             /\ idx' = idx + 1
             /\ pc' = AfterAttempt
             /\ UNCHANGED << behav, session >>
        ELSE /\ \E b \in Behaviours :
                  /\ behav' = b
                  /\ session' = [session EXCEPT ![n] = IF Launched(b) THEN "open" ELSE "none"]
             /\ pc' = "await"
             /\ UNCHANGED << results, all_tools, idx >>
  /\ UNCHANGED << runs, strategy, config, server_names, sched >>
  /\ UNCHANGED << cacheVars, workerVars, launcherVars, readerVars >>
  /\ UNCHANGED << catVars, lastRun, mainVars >>

\* from_server resolves, or the 30 s wait_for expires
MCPConnectEnd ==
  /\ strategy = "mcp"
  /\ pc = "await"
  /\ LET n == sched[idx]
         tools == Answer(n, behav)
     IN /\ session' = [session EXCEPT ![n] = MCPSessionAtReturn(behav)]
        /\ results' = Append(results,
                             Result(n, tools, behav = "hang", MCPSessionAtReturn(behav), "none"))
        /\ all_tools' = Aggregate(all_tools, n, tools)
  /\ idx' = idx + 1
  /\ pc' = AfterAttempt
  /\ behav' = "none"
  /\ UNCHANGED << runs, strategy, config, server_names, sched, attempts >>
  /\ UNCHANGED << cacheVars, workerVars, launcherVars, readerVars >>
  /\ UNCHANGED << catVars, lastRun, mainVars >>

(***************************************************************************)
(* Saving the cache: open(TOOL_CACHE_FILE, 'w') truncates the file, then   *)
(* json.dump writes it; an exception at either step is logged and the run  *)
(* returns all_tools.                                                      *)
(***************************************************************************)
PersistOpen ==
  /\ pc = "persist"
  /\ cacheFile' = [state |-> "partial", data |-> <<>>, run |-> runs]
  /\ pc' = "dump"
  /\ UNCHANGED << runs, strategy, config, server_names, sched, idx, behav, attempts,
                  results, all_tools, session, prevCache, persisted >>
  /\ UNCHANGED << workerVars, launcherVars, readerVars >>
  /\ UNCHANGED << catVars, lastRun, mainVars >>

PersistOpenFail ==
  /\ pc = "persist"
  /\ pc' = "done"
  /\ UNCHANGED << runs, strategy, config, server_names, sched, idx, behav, attempts,
                  results, all_tools, session >>
  /\ UNCHANGED << cacheVars, workerVars, launcherVars, readerVars >>
  /\ UNCHANGED << catVars, lastRun, mainVars >>

PersistDump ==
  /\ pc = "dump"
  /\ cacheFile' = [state |-> "complete", data |-> JsonDump(all_tools), run |-> runs]
  /\ persisted' = TRUE
  /\ pc' = "done"
  /\ UNCHANGED << runs, strategy, config, server_names, sched, idx, behav, attempts,
                  results, all_tools, session, prevCache >>
  /\ UNCHANGED << workerVars, launcherVars, readerVars >>
  /\ UNCHANGED << catVars, lastRun, mainVars >>

PersistDumpFail ==
  /\ pc = "dump"
  /\ pc' = "done"
  /\ UNCHANGED << runs, strategy, config, server_names, sched, idx, behav, attempts,
                  results, all_tools, session >>
  /\ UNCHANGED << cacheVars, workerVars, launcherVars, readerVars >>
  /\ UNCHANGED << catVars, lastRun, mainVars >>

(***************************************************************************)
(* agent.py: the consumer loads the cache file when it is imported, which  *)
(* may be at any moment of a preparation run.  A load before the run       *)
(* reaches its save finds what a load at the start of the save finds, so   *)
(* loads are taken from there on.                                          *)
(***************************************************************************)
\* test_tools.test_tool_cache: False when the file is missing, does not
\* parse or is an empty mapping, else whether it lists any tool at all
test_tool_cache(file) ==
  IF file.state = "absent" THEN FALSE
  ELSE IF file.state = "partial" THEN FALSE
  ELSE IF json_load(file) = <<>> THEN FALSE
  ELSE Len(Flatten(json_load(file))) > 0

\* mcp_tools after the load: empty unless the file parses
CacheTools(file) == Flatten(json_load(file))

\* a load without the try: a file that does not parse ends in a traceback
cache_load_no_try(file) ==
  CASE file.state = "absent"  -> [mcp_tools |-> <<>>, log |-> {"cache_not_found"}]
    [] file.state = "partial" -> [mcp_tools |-> <<>>, log |-> {"traceback"}]
    [] OTHER                  -> [mcp_tools |-> CacheTools(file), log |-> {"cache_loaded"}]

\* the load of agent.py lines 46-66: mcp_tools and what is logged
cache_load(file) ==
  CASE file.state = "absent"  -> [mcp_tools |-> <<>>, log |-> {"cache_not_found"}]
    [] file.state = "partial" -> [mcp_tools |-> <<>>, log |-> {"cache_load_error"}]
    [] OTHER                  -> [mcp_tools |-> CacheTools(file), log |-> {"cache_loaded"}]

\* a tool list made of the discovered tools only
ConsumerToolsMcpOnly(tools, fallbackImported) == tools

\* tool_list of agent.py
ConsumerTools(tools, fallbackImported) ==
  IF tools # <<>> THEN BuiltinTools \o tools
  ELSE IF fallbackImported THEN FallbackTools ELSE BuiltinTools

ReadCache(fallbackImported) ==
  /\ strategy \in {"mcp", "safe"}
  /\ pc \in {"persist", "dump", "done", "crashed"}
  /\ readObs' = [state |-> cacheFile.state, data |-> json_load(cacheFile)]
  /\ mcp_tools' = cache_load(cacheFile).mcp_tools
  /\ consumer_log' = cache_load(cacheFile).log
  /\ tool_list' = ConsumerTools(cache_load(cacheFile).mcp_tools, fallbackImported)
  /\ UNCHANGED << runs, strategy, config, server_names, pc, sched, idx, behav, attempts,
                  results, all_tools, session >>
  /\ UNCHANGED << cacheVars, workerVars, launcherVars >>
  /\ UNCHANGED << catVars, lastRun, mainVars >>

(***************************************************************************)
(* prepare_safe.connect_to_mcp_server: the parent writes a worker script,  *)
(* starts it, polls for its exit or its result file for up to 120 s,       *)
(* terminates it if it still runs, and reads the result file.              *)
(***************************************************************************)
WorkerAlive ==
  worker \in {"starting", "awaiting", "got_tools", "dumping", "closing_ok", "closing_err"}

SafeLaunch ==
  /\ strategy = "safe"
  /\ pc = "connect"
  /\ LET n == sched[idx] IN
     /\ attempts' = Append(attempts, n)
     /\ scriptFile' = TRUE
     /\ IF EntryKind(config, n) = "nokey"
        THEN \* KeyError while the script text is built: nothing catches it
             /\ pc' = "crashed"
             /\ error' = Exc("KeyError", 0)
             /\ UNCHANGED << worker, deadline, resultFile >>
        ELSE /\ resultFile' = "absent"
             /\ worker' = "starting"
             /\ deadline' = FALSE
             /\ pc' = "poll"
             /\ UNCHANGED error
  /\ UNCHANGED << runs, strategy, config, server_names, sched, idx, behav, results,
                  all_tools, session, args >>
  /\ UNCHANGED << cacheVars, launcherVars, readerVars >>
  /\ UNCHANGED << catVars, lastRun >>

\* the worker launches the provider and awaits from_server under wait_for(60)
WorkerStart ==
  /\ worker = "starting"
  /\ \E b \in Behaviours :
       /\ behav' = b
       /\ session' = [session EXCEPT ![sched[idx]] = IF Launched(b) THEN "open" ELSE "none"]
  /\ worker' = "awaiting"
  /\ UNCHANGED << runs, strategy, config, server_names, pc, sched, idx, attempts,
                  results, all_tools, deadline, scriptFile, resultFile >>
  /\ UNCHANGED << cacheVars, launcherVars, readerVars >>
  /\ UNCHANGED << catVars, lastRun, mainVars >>

\* from_server returns, raises, or the worker's wait_for expires
WorkerResolve ==
  /\ worker = "awaiting"
  /\ worker' = IF behav \in {"tools", "empty"} THEN "got_tools" ELSE "closing_err"
  /\ UNCHANGED << runs, strategy, config, server_names, pc, sched, idx, behav, attempts,
                  results, all_tools, session, deadline, scriptFile, resultFile >>
  /\ UNCHANGED << cacheVars, launcherVars, readerVars >>
  /\ UNCHANGED << catVars, lastRun, mainVars >>

\* open(result_path, 'w')
WorkerOpenResult ==
  /\ worker = "got_tools"
  /\ resultFile' = "partial"
  /\ worker' = "dumping"
  /\ UNCHANGED << runs, strategy, config, server_names, pc, sched, idx, behav, attempts,
                  results, all_tools, session, deadline, scriptFile >>
  /\ UNCHANGED << cacheVars, launcherVars, readerVars >>
  /\ UNCHANGED << catVars, lastRun, mainVars >>

\* json.dump(tool_schemas, f) and the close of the file
WorkerDumpResult ==
  /\ worker = "dumping"
  /\ resultFile' = "complete"
  /\ worker' = "closing_ok"
  /\ UNCHANGED << runs, strategy, config, server_names, pc, sched, idx, behav, attempts,
                  results, all_tools, session, deadline, scriptFile >>
  /\ UNCHANGED << cacheVars, launcherVars, readerVars >>
  /\ UNCHANGED << catVars, lastRun, mainVars >>

\* await exit_stack.aclose(), then the worker process ends
WorkerClose ==
  /\ worker \in {"closing_ok", "closing_err"}
  /\ session' = [session EXCEPT
                   ![sched[idx]] = IF session[sched[idx]] = "open" THEN "closed" ELSE @]
  /\ worker' = "exited"
  /\ UNCHANGED << runs, strategy, config, server_names, pc, sched, idx, behav, attempts,
                  results, all_tools, deadline, scriptFile, resultFile >>
  /\ UNCHANGED << cacheVars, launcherVars, readerVars >>
  /\ UNCHANGED << catVars, lastRun, mainVars >>

\* time.time() - start_time reaches 120 while the parent polls
DeadlineElapse ==
  /\ pc = "poll"
  /\ WorkerAlive
  /\ ~deadline
  /\ deadline' = TRUE
  /\ UNCHANGED << runs, strategy, config, server_names, pc, sched, idx, behav, attempts,
                  results, all_tools, session, worker, scriptFile, resultFile >>
  /\ UNCHANGED << cacheVars, launcherVars, readerVars >>
  /\ UNCHANGED << catVars, lastRun, mainVars >>

\* the polling loop ends: deadline, worker exit, or result file present
ParentPollBreak ==
  /\ pc = "poll"
  /\ \/ deadline
     \/ ~WorkerAlive
     \/ resultFile # "absent"
  /\ pc' = "after_loop"
  /\ UNCHANGED << runs, strategy, config, server_names, sched, idx, behav, attempts,
                  results, all_tools, session >>
  /\ UNCHANGED << cacheVars, workerVars, launcherVars, readerVars >>
  /\ UNCHANGED << catVars, lastRun, mainVars >>

\* process.terminate() / process.kill() reach the worker process only
TerminateWorker(w) ==
  IF w \in {"starting", "awaiting", "got_tools", "dumping", "closing_ok", "closing_err"}
  THEN "killed" ELSE w

\* lines 157-191, then the loop body of process_all_servers
ParentFinish ==
  /\ pc = "after_loop"
  /\ LET n == sched[idx]
         file == resultFile
         tools == IF file = "complete" THEN Answer(n, behav) ELSE <<>>
     IN /\ worker' = TerminateWorker(worker)
        /\ resultFile' = IF file = "complete" THEN "absent" ELSE file
        /\ scriptFile' = FALSE
        /\ results' = Append(results,
                             Result(n, tools, deadline \/ behav = "hang", session[n],
                                    TerminateWorker(worker)))
        /\ all_tools' = Aggregate(all_tools, n, tools)
  /\ idx' = idx + 1
  /\ pc' = AfterAttempt
  /\ behav' = "none"
  /\ UNCHANGED << runs, strategy, config, server_names, sched, attempts, session, deadline >>
  /\ UNCHANGED << cacheVars, launcherVars, readerVars >>
  /\ UNCHANGED << catVars, lastRun, mainVars >>

(***************************************************************************)
(* run_enhanced_agent.initialize_and_prepare, lines 24-47, and             *)
(* enhanced_mcp_agent.main up to its call of initialize_agent.             *)
(***************************************************************************)
\* run_enhanced_agent is started: the process is fresh and nothing of the
\* command line is read yet
StartLauncher(file) ==
  /\ Terminal
  /\ runs < MaxRuns
  /\ FreshProcess("launcher", load_mcp_config(file))
  /\ args' = Args(<<>>, FALSE, FALSE)
  /\ ignore_errors' = TRUE
  /\ max_retries' = 0
  /\ error' = NoError
  /\ pc' = "argv"
  /\ server_names' = <<>>
  /\ sched' = <<>>
  /\ idx' = 1
  /\ UNCHANGED cacheFile
  /\ UNCHANGED << catVars, lastRun >>

\* parse_arguments, and line 204: ignore_errors = not args.fail_fast
parse_arguments(servers, safe, fbonly, failfast, retry) ==
  /\ strategy = "launcher"
  /\ pc = "argv"
  /\ args' = Args(servers, safe, fbonly)
  /\ ignore_errors' = ~failfast
  /\ max_retries' = retry
  /\ pc' = "main"
  /\ UNCHANGED << runs, strategy, config, server_names, sched, idx, behav, attempts,
                  results, all_tools, session, retry_count, exit_stack, waits,
                  agent_tools, root_agent, active_connections, log, last_error, error >>
  /\ UNCHANGED << cacheVars, workerVars, readerVars >>
  /\ UNCHANGED << catVars, lastRun >>

\* safe_servers of __main__
safe_servers == <<"filesystem", "server-memory">>

\* lines 190-201: the names safe mode passes on
SafeMode(names) ==
  IF names # <<>>
  THEN IF FilterIn(names, Range(safe_servers)) = <<>>
       THEN safe_servers ELSE FilterIn(names, Range(safe_servers))
  ELSE safe_servers

\* the server_names argument __main__ hands to initialize_and_prepare
MainNames == IF args.safe_mode THEN SafeMode(args.servers) ELSE args.servers

\* __main__ lines 168-211 and initialize_and_prepare lines 24-47.
\* With --fallback-only the else branch that binds server_names is skipped,
\* and the code after the if/else still reads server_names: NameError,
\* caught at line 218, sys.exit(1).
LauncherMain(importOk) ==
  /\ strategy = "launcher"
  /\ pc = "main"
  /\ IF args.fallback_only
     THEN /\ pc' = "crashed"
          /\ root_agent' = IF importOk THEN "fallback" ELSE root_agent
          /\ exit_stack' = IF importOk THEN "stack" ELSE exit_stack
          /\ log' = log \cup {IF importOk THEN "fallback_installed"
                                          ELSE "fallback_import_error"}
          /\ error' = IF importOk THEN Exc("NameError", 0) ELSE Exc("SystemExit", 1)
          /\ UNCHANGED server_names
     ELSE /\ IF MainNames = <<>> /\ config.shape # "dict"
             THEN \* line 31: config.get raises outside every try
                  /\ pc' = "crashed"
                  /\ error' = Exc("AttributeError", 0)
                  /\ UNCHANGED server_names
             ELSE /\ server_names' = IF MainNames = <<>> THEN ConfigKeys(config)
                                                        ELSE MainNames
                  /\ pc' = "retry_loop"
                  /\ UNCHANGED error
          /\ UNCHANGED << root_agent, exit_stack, log >>
  /\ UNCHANGED << runs, strategy, config, sched, idx, behav, attempts, results,
                  all_tools, session, ignore_errors, max_retries, retry_count, waits,
                  agent_tools, active_connections, last_error, args >>
  /\ UNCHANGED << cacheVars, workerVars, readerVars >>
  /\ UNCHANGED << catVars, lastRun >>

\* 2 ** retry_count
RECURSIVE Pow2(_)
Pow2(k) == IF k = 0 THEN 1 ELSE 2 * Pow2(k - 1)

\* after the k-th failed call the loop sleeps 2 ** k, unless it was the last
WaitsAfterEveryFailure(w, k, maxr) == Append(w, Pow2(k))

WaitsAfterFailure(w, k, maxr) == IF k <= maxr THEN Append(w, Pow2(k)) ELSE w

\* what follows the while loop once initialize_agent has raised for the
\* last time: fallback (ignore_errors) or raise last_error
AfterLastFailureFallsBack(ign) == "done"

AfterLastFailure(ign) == IF ign THEN "done" ELSE "crashed"

\* one pass of the while loop of initialize_and_prepare in which
\* initialize_agent raises (config.get on a document that is no mapping):
\* the except clause and, after the last pass, lines 67-98
LauncherTryRaises(importOk) ==
  /\ strategy = "launcher"
  /\ pc = "retry_loop"
  /\ config.shape # "dict"
  /\ retry_count' = retry_count + 1
  /\ waits' = WaitsAfterFailure(waits, retry_count + 1, max_retries)
  /\ pc' = IF retry_count + 1 <= max_retries THEN "retry_loop"
           ELSE AfterLastFailure(ignore_errors)
  /\ root_agent' = IF retry_count + 1 > max_retries /\ ignore_errors /\ importOk
                   THEN "fallback" ELSE root_agent
  /\ exit_stack' = IF retry_count + 1 > max_retries /\ ignore_errors
                   THEN "stack" ELSE exit_stack
  /\ log' = IF retry_count + 1 <= max_retries THEN log
            ELSE IF ~ignore_errors THEN log \cup {"failed_after_attempts"}
            ELSE log \cup {"fallback_switch", "initialized",
                           IF importOk THEN "fallback_installed"
                                       ELSE "fallback_import_error"}
  /\ last_error' = Exc("initialize_agent", retry_count + 1)
  /\ error' = IF retry_count + 1 > max_retries /\ ~ignore_errors
              THEN last_error'   \* line 90: raise last_error
              ELSE error
  /\ UNCHANGED << runs, strategy, config, server_names, sched, idx, behav, attempts,
                  results, all_tools, session, ignore_errors, max_retries, agent_tools,
                  active_connections, args >>
  /\ UNCHANGED << cacheVars, workerVars, readerVars >>
  /\ UNCHANGED << catVars, lastRun >>

\* one pass of the while loop in which initialize_agent gets as far as its
\* first await, or returns an empty exit stack because no name is left
LauncherTry ==
  /\ strategy = "launcher"
  /\ pc = "retry_loop"
  /\ config.shape = "dict"
  /\ LET names == FilterIn(server_names, Range(ConfigKeys(config))) IN
       /\ sched' = SortByPriority(names)
       /\ pc' = IF names = <<>> THEN "done" ELSE "connect"
       /\ exit_stack' = IF names = <<>> THEN "stack" ELSE exit_stack
       /\ log' = IF names = <<>> THEN log \cup {"attempt_ok", "initialized"} ELSE log
  /\ idx' = 1
  /\ UNCHANGED << runs, strategy, config, server_names, behav, attempts, results,
                  all_tools, session, ignore_errors, max_retries, retry_count, waits,
                  agent_tools, root_agent, active_connections, last_error >>
  /\ UNCHANGED << cacheVars, workerVars, readerVars >>
  /\ UNCHANGED << catVars, lastRun, mainVars >>

StartMain(file) ==
  /\ Terminal
  /\ runs < MaxRuns
  /\ FreshProcess("main", load_mcp_config(file))
  /\ LET cfg == load_mcp_config(file) IN
     IF cfg.shape # "dict"
     THEN /\ pc' = "crashed"
          /\ server_names' = <<>>
          /\ sched' = <<>>
     ELSE /\ server_names' = ConfigKeys(cfg)
          /\ sched' = SortByPriority(ConfigKeys(cfg))
          /\ pc' = IF ConfigKeys(cfg) = <<>> THEN "serving" ELSE "connect"
  /\ error' = IF load_mcp_config(file).shape # "dict"
              THEN Exc("AttributeError", 0) ELSE NoError
  /\ args' = Args(<<>>, FALSE, FALSE)
  /\ idx' = 1
  /\ UNCHANGED << cacheFile, ignore_errors, max_retries >>
  /\ UNCHANGED << catVars, lastRun >>

(***************************************************************************)
(* enhanced_mcp_agent.connect_to_mcp_server and the loop of                *)
(* initialize_agent: every session is entered into the one exit stack of   *)
(* the call, and from_server is awaited without a deadline.                *)
(***************************************************************************)
Inproc == strategy \in {"launcher", "main"}

\* which call of initialize_agent in this process is running
CallNo == IF "reinitialized" \in log THEN 2 ELSE 1

\* lines 150-153: active_connections[server_name] = {...}, the entry of the
\* attempt i of the call; a dict holds one entry per key
Register(reg, n, call, i) == {e \in reg : e[1] # n} \cup {<<n, call, i>>}

\* where control is once the attempt at position idx has returned:
\* the rest of initialize_agent has no await
InprocAfter ==
  IF idx # Len(sched) THEN "connect"
  ELSE IF strategy = "launcher" THEN "done" ELSE "serving"

\* the launcher's bookkeeping when initialize_agent returns
InprocReturn ==
  IF idx = Len(sched) /\ strategy = "launcher"
  THEN /\ exit_stack' = "stack"
       /\ log' = log \cup {"attempt_ok", "initialized"}
  ELSE UNCHANGED << exit_stack, log >>

InprocConnectBegin ==
  /\ Inproc
  /\ pc = "connect"
  /\ LET n == sched[idx] IN
     /\ attempts' = Append(attempts, n)
     /\ IF EntryKind(config, n) = "nokey"
        THEN \* KeyError inside the try: return []
             /\ results' = Append(results, Result(n, <<>>, FALSE, "none", "none"))
             /\ idx' = idx + 1
             /\ pc' = InprocAfter
             /\ InprocReturn
             /\ UNCHANGED << behav, session >>
        ELSE /\ \E b \in Behaviours :
                  /\ behav' = b
                  /\ session' = [session EXCEPT ![n] = IF Launched(b) THEN "open" ELSE "none"]
             /\ pc' = "await"
             /\ UNCHANGED << results, idx, exit_stack, log >>
  /\ UNCHANGED << runs, strategy, config, server_names, sched, all_tools, ignore_errors,
                  max_retries, retry_count, waits, agent_tools, root_agent,
                  active_connections, last_error >>
  /\ UNCHANGED << cacheVars, workerVars, readerVars >>
  /\ UNCHANGED << catVars, lastRun, mainVars >>

\* from_server returns or raises; a provider that never answers leaves
\* the await pending
InprocConnectEnd ==
  /\ Inproc
  /\ pc = "await"
  /\ behav # "hang"
  /\ LET n == sched[idx]
         tools == Answer(n, behav)
     IN /\ results' = Append(results, Result(n, tools, FALSE, session[n], "none"))
        /\ active_connections' = IF behav \in {"tools", "empty"}
                                 THEN Register(active_connections, n, CallNo, idx)
                                 ELSE active_connections
        /\ agent_tools' = agent_tools \o tools
  /\ idx' = idx + 1
  /\ pc' = InprocAfter
  /\ InprocReturn
  /\ behav' = "none"
  /\ UNCHANGED << runs, strategy, config, server_names, sched, attempts, all_tools,
                  session, ignore_errors, max_retries, retry_count, waits, root_agent,
                  last_error >>
  /\ UNCHANGED << cacheVars, workerVars, readerVars >>
  /\ UNCHANGED << catVars, lastRun, mainVars >>

\* main: the sleep ends or is interrupted, finally: await exit_stack.aclose()
MainFinish ==
  /\ strategy = "main"
  /\ pc = "serving"
  /\ session' = [n \in Names |-> IF session[n] = "open" THEN "closed" ELSE session[n]]
  /\ pc' = "done"
  /\ UNCHANGED << runs, strategy, config, server_names, sched, idx, behav, attempts,
                  results, all_tools >>
  /\ UNCHANGED << cacheVars, workerVars, launcherVars, readerVars >>
  /\ UNCHANGED << catVars, lastRun, mainVars >>

\* initialize_agent is called once more in the process that is serving: the
\* configuration is loaded again and the providers are connected again.
\* root_agent and active_connections are module globals that the call
\* extends (lines 224-225, 150-153) and never resets; the exit stack of the
\* earlier call is not closed.
Reinitialize ==
  /\ strategy = "main"
  /\ pc = "serving"
  /\ "reinitialized" \notin log
  /\ log' = log \cup {"reinitialized"}
  /\ sched' = SortByPriority(ConfigKeys(config))
  /\ idx' = 1
  /\ attempts' = <<>>
  /\ results' = <<>>
  /\ pc' = IF ConfigKeys(config) = <<>> THEN "serving" ELSE "connect"
  /\ UNCHANGED << runs, strategy, config, server_names, behav, all_tools, session,
                  ignore_errors, max_retries, retry_count, exit_stack, waits,
                  agent_tools, root_agent, active_connections, last_error >>
  /\ UNCHANGED << cacheVars, workerVars, readerVars >>
  /\ UNCHANGED << catVars, lastRun, mainVars >>

\* Ctrl-C while initialize_agent is connecting. Both __main__ blocks catch
\* KeyboardInterrupt, log "Interrupted by user." and fall off the end:
\* neither closes an exit stack nor calls shutdown().
Interrupt ==
  /\ Inproc
  /\ pc \in {"connect", "await"}
  /\ pc' = "interrupted"
  /\ log' = log \cup {"interrupted"}
  /\ UNCHANGED << runs, strategy, config, server_names, sched, idx, behav, attempts,
                  results, all_tools, session, ignore_errors, max_retries, retry_count,
                  exit_stack, waits, agent_tools, root_agent, active_connections,
                  last_error >>
  /\ UNCHANGED << cacheVars, workerVars, readerVars >>
  /\ UNCHANGED << catVars, lastRun, mainVars >>

Next ==
  \/ \E file \in ConfigFiles, req \in Requests : StartPrep("mcp", file, req)
  \/ \E file \in ConfigFiles, req \in Requests : StartPrep("safe", file, req)
  \/ \E file \in ConfigFiles : StartLauncher(file)
  \/ \E servers \in LauncherRequests, safe \in BOOLEAN, fbonly \in BOOLEAN, failfast \in BOOLEAN,
        retry \in 0..MaxRetries :
       parse_arguments(servers, safe, fbonly, failfast, retry)
  \/ \E ok \in BOOLEAN : LauncherMain(ok)
  \/ \E file \in ConfigFiles : StartMain(file)
  \/ MCPConnectBegin
  \/ MCPConnectEnd
  \/ SafeLaunch
  \/ WorkerStart
  \/ WorkerResolve
  \/ WorkerOpenResult
  \/ WorkerDumpResult
  \/ WorkerClose
  \/ DeadlineElapse
  \/ ParentPollBreak
  \/ ParentFinish
  \/ LauncherTry
  \/ \E ok \in BOOLEAN : LauncherTryRaises(ok)
  \/ InprocConnectBegin
  \/ InprocConnectEnd
  \/ MainFinish
  \/ Interrupt
  \/ Reinitialize
  \/ PersistOpen
  \/ PersistOpenFail
  \/ PersistDump
  \/ PersistDumpFail
  \/ \E fb \in BOOLEAN : ReadCache(fb)

Spec == Init /\ [][Next]_vars

\* the event loop and the operating system run whatever can run
FairSpec == Spec /\ WF_vars(Next /\ pc' # "interrupted")

(***************************************************************************)
(* The two schedulers on their own: a name list is handed over and one of  *)
(* the schedulers orders it.                                               *)
(***************************************************************************)
MaxNames == 3

\* the duplicate-free lists of at most k of the names
RECURSIVE ListsUpTo(_)
ListsUpTo(k) ==
  IF k = 0 THEN {<<>>}
  ELSE ListsUpTo(k - 1)
         \cup {Append(l, n) : l \in ListsUpTo(k - 1), n \in SchedNames}

NameLists == {l \in ListsUpTo(MaxNames) : Cardinality(Range(l)) = Len(l)}

schedFrame == << runs, config, idx, behav, attempts, results, all_tools, session,
                 cacheVars, workerVars, launcherVars, readerVars, catVars, lastRun,
                 mainVars >>

\* the resolved names reach the scheduler
ReceiveNames(names) ==
  /\ pc = "idle"
  /\ server_names' = names
  /\ pc' = "schedule"
  /\ UNCHANGED << strategy, sched, schedFrame >>

\* prepare_mcp_tools lines 119-140, prepare_safe lines 216-237
ScheduleByName(strat) ==
  /\ pc = "schedule"
  /\ strategy' = strat
  /\ sched' = Prioritize(server_names)
  /\ pc' = "scheduled"
  /\ UNCHANGED << server_names, schedFrame >>

\* enhanced_mcp_agent.initialize_agent lines 210-214
ScheduleByCategory ==
  /\ pc = "schedule"
  /\ strategy' = "launcher"
  /\ sched' = SortByPriority(server_names)
  /\ pc' = "scheduled"
  /\ UNCHANGED << server_names, schedFrame >>

SchedNext ==
  \/ \E names \in NameLists : ReceiveNames(names)
  \/ \E strat \in {"mcp", "safe"} : ScheduleByName(strat)
  \/ ScheduleByCategory

SchedSpec == Init /\ [][SchedNext]_vars

(***************************************************************************)
(* categorize_server and get_server_priority on their own.  The names are  *)
(* built from fragments that hold the keywords in several letter cases.    *)
(***************************************************************************)
MaxParts == 2

Fragments ==
    { <<"f","i","l","e">>,
     <<"S","e","a","r","c","h">>,
     <<"M","E","M","O","R","Y">>,
     <<"G","i","t">>,
     <<"b","r","o","w","s">>,
     <<"g","m","a","i","l">>,
     <<"c","a","l","e","n","d","a","r">>,
     <<"a","i","r","b","n","b">>,
     <<"E","L","E","V","E","N">>,
     <<"x","-">>,
     <<"d","u","c","k">>,
     <<"g","r","a","p","h">>,
     <<"p","l","a","y">>,
     <<"o","u","t","l","o","o","k">> }

RECURSIVE NamesOfParts(_)
NamesOfParts(k) ==
  IF k = 0 THEN {<<>>}
  ELSE NamesOfParts(k - 1) \cup {a \o b : a \in Fragments, b \in NamesOfParts(k - 1)}

CatNames == NamesOfParts(MaxParts)

catFrame == << runs, strategy, config, server_names, pc, sched, idx, behav, attempts,
               results, all_tools, session, cacheVars, workerVars, launcherVars,
               readerVars, lastRun, mainVars >>

CatInit ==
  /\ InitRun
  /\ server_name \in CatNames
  /\ server_category = "none"
  /\ server_priority = 0
  /\ available_tools = <<>>
  /\ instruction = <<>>

\* category = categorize_server(server_name)
Categorize ==
  /\ server_category = "none"
  /\ server_category' = categorize_chars(server_name)
  /\ UNCHANGED << server_name, server_priority, instrVars, catFrame >>

\* get_server_priority(category)
GetPriority ==
  /\ server_category # "none"
  /\ server_priority = 0
  /\ server_priority' = get_server_priority(server_category)
  /\ UNCHANGED << server_name, server_category, instrVars, catFrame >>

CatNext == Categorize \/ GetPriority

CatSpec == CatInit /\ [][CatNext]_vars

(***************************************************************************)
(* enhance_agent_instruction on its own.  The instruction is the sequence  *)
(* of the parts the function joins; a part is named after its capability.  *)
(***************************************************************************)
filesystem_tools ==
  {"read_file", "write_file", "list_directory", "create_directory", "search_files",
   "get_file_info", "move_file", "edit_file"}

search_tools ==
  {"search", "fetch_content", "firecrawl_search", "firecrawl_scrape", "firecrawl_map",
   "firecrawl_crawl", "firecrawl_extract", "firecrawl_deep_research",
   "firecrawl_generate_llmstxt", "firecrawl_check_crawl_status"}

memory_tools ==
  {"read_graph", "search_nodes", "create_entities", "create_relations",
   "add_observations", "delete_entities", "delete_observations", "delete_relations",
   "open_nodes"}

github_tools ==
  {"search_repositories", "create_repository", "get_file_contents",
   "create_or_update_file", "push_files", "create_issue", "create_pull_request",
   "create_branch", "fork_repository", "list_commits", "list_issues", "update_issue",
   "add_issue_comment", "search_code", "search_issues", "search_users", "get_issue",
   "get_pull_request", "list_pull_requests", "create_pull_request_review",
   "merge_pull_request", "get_pull_request_files", "get_pull_request_status",
   "update_pull_request_branch", "get_pull_request_comments",
   "get_pull_request_reviews"}

browser_tools ==
  {"browserbase_create_session", "browserbase_navigate", "browserbase_screenshot",
   "browserbase_click", "browserbase_fill", "browserbase_get_text", "browser_close",
   "browser_wait", "browser_resize", "browser_console_messages",
   "browser_handle_dialog", "browser_file_upload", "browser_install",
   "browser_press_key", "browser_navigate", "browser_navigate_back",
   "browser_navigate_forward", "browser_network_requests", "browser_pdf_save",
   "browser_snapshot", "browser_click", "browser_drag", "browser_hover",
   "browser_type", "browser_select_option", "browser_take_screenshot",
   "browser_tab_list", "browser_tab_new", "browser_tab_select", "browser_tab_close"}

calendar_tools ==
  {"list_events", "create_event", "find_free_slots", "get_attendee_status",
   "delete_event", "update_event", "get_calendars"}

email_tools ==
  {"send_email", "draft_email", "read_email", "search_emails", "modify_email",
   "delete_email", "list_email_labels", "batch_modify_emails", "batch_delete_emails",
   "create_label", "update_label", "delete_label", "get_or_create_label"}

airbnb_tools == {"airbnb_search", "airbnb_listing_details"}

elevenlabs_tools ==
  {"text_to_speech", "speech_to_text", "text_to_sound_effects", "search_voices",
   "get_voice", "voice_clone", "isolate_audio", "check_subscription", "create_agent",
   "add_knowledge_base_to_agent", "list_agents", "get_agent", "speech_to_speech",
   "text_to_voice", "create_voice_from_preview", "make_outbound_call",
   "search_voice_library", "list_phone_numbers", "play_audio"}

\* if any(tool in available_tools for tool in <set>): instruction_parts.append(...)
AppendIfAny(parts, available, tools, part) ==
  IF \E t \in tools : t \in available THEN Append(parts, part) ELSE parts

enhance_email_unless_calendar(available) ==
  LET p1 == AppendIfAny(<<"header">>, available, {"get_weather"}, "weather")
      p2 == AppendIfAny(p1, available, filesystem_tools, "filesystem")
      p3 == AppendIfAny(p2, available, search_tools, "search")
      p4 == AppendIfAny(p3, available, memory_tools, "memory")
      p5 == AppendIfAny(p4, available, github_tools, "github")
      p6 == AppendIfAny(p5, available, browser_tools, "browser")
      p7 == AppendIfAny(p6, available, calendar_tools, "calendar")
      p8 == IF p7 # p6 THEN p7 ELSE AppendIfAny(p7, available, email_tools, "email")
      p9 == AppendIfAny(p8, available, airbnb_tools, "airbnb")
      p10 == AppendIfAny(p9, available, elevenlabs_tools, "elevenlabs")
  IN Append(p10, "footer")

\* lines 253-346
enhance_agent_instruction(available) ==
  LET p1 == AppendIfAny(<<"header">>, available, {"get_weather"}, "weather")
      p2 == AppendIfAny(p1, available, filesystem_tools, "filesystem")
      p3 == AppendIfAny(p2, available, search_tools, "search")
      p4 == AppendIfAny(p3, available, memory_tools, "memory")
      p5 == AppendIfAny(p4, available, github_tools, "github")
      p6 == AppendIfAny(p5, available, browser_tools, "browser")
      p7 == AppendIfAny(p6, available, calendar_tools, "calendar")
      p8 == AppendIfAny(p7, available, email_tools, "email")
      p9 == AppendIfAny(p8, available, airbnb_tools, "airbnb")
      p10 == AppendIfAny(p9, available, elevenlabs_tools, "elevenlabs")
  IN Append(p10, "footer")

\* tool names a run may discover: of every capability, of none, and two of one
ToolNameSample ==
  {"get_weather", "list_files", "read_file", "write_file", "search", "read_graph",
   "create_issue", "browser_click", "list_events", "send_email", "airbnb_search",
   "text_to_speech"}

RECURSIVE ToolListsUpTo(_)
ToolListsUpTo(k) ==
  IF k = 0 THEN {<<>>}
  ELSE ToolListsUpTo(k - 1)
         \cup {Append(l, t) : l \in ToolListsUpTo(k - 1), t \in ToolNameSample}

\* root_agent.tools after the connecting phase: the two built-in tools, then
\* what the providers returned, in the order of discovery
ToolLists ==
  {<<"get_weather", "list_files">> \o l : l \in ToolListsUpTo(MaxTools)}
    \cup ToolListsUpTo(MaxTools)

instrFrame == << runs, strategy, config, server_names, pc, sched, idx, behav, attempts,
                 results, all_tools, session, cacheVars, workerVars, launcherVars,
                 readerVars, lastRun, mainVars, server_name, server_category,
                 server_priority >>

InstrInit ==
  /\ InitRun
  /\ server_name = <<>>
  /\ server_category = "none"
  /\ server_priority = 0
  /\ available_tools \in ToolLists
  /\ instruction = <<>>

\* initialize_agent lines 231-249: all_tool_names is the set of the names of
\* root_agent.tools, and the instruction is rebuilt from it
EnhanceInstruction ==
  /\ instruction = <<>>
  /\ instruction' = enhance_agent_instruction(Range(available_tools))
  /\ UNCHANGED << available_tools, instrFrame >>

\* a further tool is added to root_agent.tools and the instruction rebuilt
ExtendAndEnhance(t) ==
  /\ instruction # <<>>
  /\ Len(available_tools) < MaxTools + 2
  /\ available_tools' = Append(available_tools, t)
  /\ instruction' = enhance_agent_instruction(Range(available_tools) \cup {t})
  /\ UNCHANGED instrFrame

InstrNext ==
  \/ EnhanceInstruction
  \/ \E t \in ToolNameSample : ExtendAndEnhance(t)

InstrSpec == InstrInit /\ [][InstrNext]_vars

(***************************************************************************)
(* Preparation runs repeated: the same scripts as in Spec, with a record   *)
(* of how the run before the current one ended.                            *)
(***************************************************************************)
\* per attempt, what the provider came to
Outcomes(res) ==
  [i \in 1..Len(res) |-> [name |-> res[i].name, tools |-> res[i].tools,
                          timeout |-> res[i].timeout]]

\* whether the run wrote the cache, had nothing to write, or failed to write
SaveOutcome ==
  IF persisted THEN "written"
  ELSE IF pc = "crashed" \/ sched = <<>> THEN "skipped" ELSE "failed"

\* the provider keys of a loaded cache, each with its set of tool names
KeysAndNames(d) ==
  {<<d[i].name, {d[i].tools[k].name : k \in 1..Len(d[i].tools)}>> : i \in 1..Len(d)}

\* a further preparation run in the same directory
RepeatPrep(strat, file, req) ==
  /\ runs >= 1
  /\ PrepRun(strat, file, req)
  /\ lastRun' = [strategy |-> strategy, config |-> config, server_names |-> server_names,
                 results |-> Outcomes(results), saved |-> SaveOutcome,
                 cache |-> KeysAndNames(json_load(cacheFile))]

IdemNext ==
  \/ \E strat \in {"mcp", "safe"}, file \in ConfigFiles, req \in Requests :
       runs = 0 /\ StartPrep(strat, file, req)
  \/ \E strat \in {"mcp", "safe"}, file \in ConfigFiles, req \in Requests :
       RepeatPrep(strat, file, req)
  \/ MCPConnectBegin
  \/ MCPConnectEnd
  \/ SafeLaunch
  \/ WorkerStart
  \/ WorkerResolve
  \/ WorkerOpenResult
  \/ WorkerDumpResult
  \/ WorkerClose
  \/ DeadlineElapse
  \/ ParentPollBreak
  \/ ParentFinish
  \/ PersistOpen
  \/ PersistOpenFail
  \/ PersistDump
  \/ PersistDumpFail

IdemSpec == Init /\ [][IdemNext]_vars

(***************************************************************************)
(* Properties.                                                             *)
(***************************************************************************)
Prep == strategy \in {"mcp", "safe"}

\* the connecting phase of the run is over
RunOver == pc \in {"persist", "dump", "done", "crashed", "serving"}

Succeeded == {results[i].name : i \in {k \in 1..Len(results) : results[k].tools # <<>>}}

\* the tools of the agent the launcher leaves in enhanced_mcp_agent.root_agent
FinalTools == IF root_agent = "fallback" THEN FallbackTools ELSE agent_tools

\* C1: in every orchestration run the connection attempts are initiated in
\* scheduled order, and once the connecting phase is over every resolved
\* provider has been attempted exactly once, whatever the earlier attempts
\* came to.
C1_AttemptsFollowSchedule ==
  /\ Len(attempts) <= Len(sched) => attempts = SubSeq(sched, 1, Len(attempts))
  /\ RunOver => attempts = sched

\* C2: when a launcher run (without fail-fast) ends and none of the providers
\* it attempted returned a tool, the agent's tools are exactly the built-in
\* fallback set and the switch to the fallback agent was reported.
C2_ZeroSuccessIsDegraded ==
  (strategy = "launcher" /\ ignore_errors /\ pc = "done" /\ attempts # <<>>
     /\ Succeeded = {})
    => (FinalTools = FallbackTools /\ "fallback_switch" \in log)

\* C3: a launcher run whose connecting phase yielded no tool has run the whole
\* connecting phase max_retries + 1 times when it ends; a run in which a
\* provider succeeded has run it once.
C3_TotalFailureIsRetried ==
  (strategy = "launcher" /\ pc = "done" /\ sched # <<>>)
    => Len(attempts) = (IF Succeeded = {} THEN max_retries + 1 ELSE 1) * Len(sched)

\* C4: an attempt that exceeded its timeout contributes no entry to all_tools
\* (hence to the cache the run writes), and when it returns neither its
\* worker process nor the provider session it opened is alive.
C4_TimedOutAttemptLeavesNothing ==
  \A i \in 1..Len(results) :
    results[i].timeout =>
      /\ results[i].name \notin DictKeys(all_tools)
      /\ results[i].tools = <<>>
      /\ results[i].session # "open"
      /\ results[i].worker \notin {"starting", "awaiting", "got_tools", "dumping",
                                   "closing_ok", "closing_err"}

\* C5: when prepare_mcp_tools.connect_to_mcp_server returns, on every exit
\* path, the session entered into the attempt's exit stack has been closed.
C5_ExitStackClosedOnReturn ==
  strategy = "mcp" => \A i \in 1..Len(results) : results[i].session # "open"

\* C6: when an in-process run (launcher or main) completes, every provider
\* session that reached connected has been closed.
C6_ConnectedSessionsClosed ==
  (Inproc /\ pc = "done") => \A e \in active_connections : session[e[1]] = "closed"

\* C7: no run waits on a provider without a deadline: every run that waits
\* on a provider eventually stops waiting, even when the provider never
\* answers.
C7_WaitEnds == (pc \in {"await", "poll"}) ~> (pc \notin {"await", "poll"})

\* C8: whatever the consumer finds in the cache file is the complete cache of
\* before the run's save or the complete new cache, never a partial file.
C8_ReaderSeesWholeCache ==
  readObs # Unread =>
    /\ readObs.state # "partial"
    /\ \/ readObs = [state |-> prevCache.state, data |-> json_load(prevCache)]
       \/ readObs = [state |-> "complete", data |-> all_tools]

\* C9: after a run that wrote the cache, the cache keys are exactly the
\* providers whose attempt in that run returned at least one tool, and no key
\* maps to an empty list.
C9_CacheKeysAreSuccessfulProviders ==
  (Prep /\ persisted) =>
    /\ cacheFile.state = "complete"
    /\ DictKeys(json_load(cacheFile)) = Succeeded
    /\ \A i \in 1..Len(json_load(cacheFile)) : json_load(cacheFile)[i].tools # <<>>

\* a run wrote the cache, with one provider that succeeded in it and one
\* that did not
C9_Witness ==
  /\ Prep /\ persisted
  /\ Succeeded # {}
  /\ \E i \in 1..Len(results) : results[i].tools = <<>>

\* C10: after a preparation run completes, the cache file holds no provider
\* entry produced by an earlier run.
C10_CacheRebuiltByEveryRun ==
  (Prep /\ pc = "done") => (json_load(cacheFile) # <<>> => cacheFile.run = runs)

\* the tools of a list that carry the name t
Named(tools, t) == {i \in 1..Len(tools) : tools[i].name = t}

\* the provider scheduled last among those whose attempt returned a tool t
LastProviderOf(t) ==
  LET hits == {i \in 1..Len(results) :
                 \E k \in 1..Len(results[i].tools) : results[i].tools[k].name = t}
  IN results[CHOOSE i \in hits : \A j \in hits : j <= i].name

\* C11: when two connected providers expose a tool of the same name, the tool
\* set delivered to the consumer (the tool_list of agent.py after a load of
\* the cache, the agent's tools after initialize_agent) holds exactly one tool
\* of that name, the one of the later-scheduled provider.
C11_CollisionKeepsLaterDefinition ==
  /\ (Prep /\ persisted /\ readObs.state = "complete" /\ pc = "done") =>
       \A i \in 1..Len(tool_list) :
         tool_list[i].src \in Names =>
           /\ Named(tool_list, tool_list[i].name) = {i}
           /\ tool_list[i].src = LastProviderOf(tool_list[i].name)
  /\ (strategy = "launcher" /\ pc = "done" /\ root_agent = "enhanced") =>
       \A i \in 1..Len(agent_tools) :
         agent_tools[i].src \in Names =>
           /\ Named(agent_tools, agent_tools[i].name) = {i}
           /\ agent_tools[i].src = LastProviderOf(agent_tools[i].name)

\* C12: once a run has persisted its aggregate, a load of the cache file
\* gives a mapping equal to the aggregate: the same providers in the same
\* order, each with the same tool records in the same order.
C12_CacheRoundTrip ==
  (Prep /\ persisted) => json_load(cacheFile) = all_tools

\* a persisted aggregate of two providers, one of them with two tools, that
\* the consumer has loaded
C12_Witness ==
  /\ Prep /\ persisted
  /\ Len(all_tools) >= 2
  /\ \E i \in 1..Len(all_tools) : Len(all_tools[i].tools) >= 2
  /\ readObs = [state |-> "complete", data |-> all_tools]

\* the current run had the configuration, the names and the provider outcomes
\* of the run before it, in the same script, and neither failed to write
SameRunAgain ==
  /\ Prep /\ pc \in {"done", "crashed"}
  /\ lastRun.strategy = strategy
  /\ lastRun.config = config
  /\ lastRun.server_names = server_names
  /\ lastRun.results = Outcomes(results)
  /\ lastRun.saved # "failed"
  /\ SaveOutcome # "failed"

Tier(n) ==
  IF n \in Range(high_priority) THEN 1
  ELSE IF n \in Range(medium_priority) THEN 2 ELSE 3

\* the position of a name in a duplicate-free list
PosIn(l, n) == CHOOSE i \in 1..Len(l) : l[i] = n

\* C14: in the scheduler's output every name of the high-priority list comes
\* before every name of the medium-priority list, and both come before every
\* name that is in neither list.
C14_TiersInOrder ==
  pc = "scheduled" =>
    \A i, j \in 1..Len(sched) : Tier(sched[i]) < Tier(sched[j]) => i < j

\* C15: in the scheduler's output the names that are in neither priority list
\* are in ascending order of the priority of their category, and those of
\* equal priority are in their input order.
C15_RestSortedByCategoryPriority ==
  pc = "scheduled" =>
    \A i, j \in 1..Len(sched) :
      (i < j /\ Tier(sched[i]) = 3 /\ Tier(sched[j]) = 3) =>
        /\ Prio(sched[i]) <= Prio(sched[j])
        /\ Prio(sched[i]) = Prio(sched[j]) =>
             PosIn(server_names, sched[i]) < PosIn(server_names, sched[j])

\* the fixed evaluation order of the categories
CategoryOrder == << "filesystem", "search", "memory", "github", "browser", "email",
                    "calendar", "airbnb", "elevenlabs" >>

\* the keyword set of each category
Keywords ==
  "filesystem" :> {<<"f","i","l","e">>} @@
  "search" :> {<<"d","u","c","k">>, <<"s","e","a","r","c","h">>, <<"f","i","r","e">>, <<"c","r","a","w","l">>} @@
  "memory" :> {<<"m","e","m","o","r","y">>, <<"g","r","a","p","h">>} @@
  "github" :> {<<"g","i","t","h","u","b">>, <<"g","i","t">>} @@
  "browser" :> {<<"b","r","o","w","s">>, <<"p","l","a","y">>} @@
  "email" :> {<<"m","a","i","l">>, <<"g","m","a","i","l">>} @@
  "calendar" :> {<<"c","a","l","e","n","d","a","r">>, <<"o","u","t","l","o","o","k">>} @@
  "airbnb" :> {<<"a","i","r","b","n","b">>} @@
  "elevenlabs" :> {<<"e","l","e","v","e","n">>}

\* the categories of which a keyword occurs in the lower-cased name
Matching(s) ==
  {i \in 1..Len(CategoryOrder) :
     \E kw \in Keywords[CategoryOrder[i]] : Contains(Lower(s), kw)}

\* C17: a name is categorized as the earliest category, in the fixed order,
\* of which it holds a keyword, whatever the letter case of the name and
\* wherever in the name the keywords stand.
C17_EarliestCategoryWins ==
  (server_category # "none" /\ Matching(server_name) # {}) =>
    server_category =
      CategoryOrder[CHOOSE i \in Matching(server_name) : \A j \in Matching(server_name) : i <= j]

\* a categorized name with an upper-case letter that holds keywords of
\* several categories
C17_Witness ==
  /\ server_category # "none"
  /\ Cardinality(Matching(server_name)) >= 2
  /\ Lower(server_name) # server_name

\* C18: every name is categorized as one of the fixed categories, a name that
\* holds no keyword as other, and the priority table has an entry for the
\* category (the default 100 is not used).
C18_CategorizerIsTotal ==
  /\ server_category # "none" =>
       /\ server_category \in Range(CategoryOrder) \cup {"other"}
       /\ Matching(server_name) = {} => server_category = "other"
  /\ server_priority # 0 => server_priority \in 1..10

\* a name without any keyword has been categorized and given its priority
C18_Witness ==
  /\ server_name # <<>>
  /\ Matching(server_name) = {}
  /\ server_category = "other"
  /\ server_priority = 10

\* C21: whatever the outcome, the tool list given to the agent is not empty:
\* the tool_list of agent.py after any load of the cache, and the tools of the
\* agent the launcher or main leaves behind.
C21_ToolListNeverEmpty ==
  /\ readObs # Unread => tool_list # <<>>
  /\ (Inproc /\ pc \in {"done", "serving"}) => FinalTools # <<>>

\* the consumer found no usable cache and could not import the fallback agent
C21_Witness ==
  /\ readObs # Unread
  /\ readObs.state # "complete"
  /\ tool_list = BuiltinTools

\* C22: when the cache file is missing or does not parse, the consumer's load
\* ends with no discovered tool and a logged warning or error, and without a
\* traceback.
C22_CacheLoadIsTotal ==
  (readObs # Unread /\ readObs.state # "complete") =>
    /\ mcp_tools = <<>>
    /\ consumer_log \cap {"cache_not_found", "cache_load_error"} # {}
    /\ "traceback" \notin consumer_log

\* the consumer loaded a cache file that a save had truncated
C22_Witness ==
  /\ readObs # Unread
  /\ readObs.state = "partial"
  /\ consumer_log = {"cache_load_error"}

\* C23: a requested name that the configuration does not define is dropped:
\* no connection is attempted for it, it raises no error, and the configured
\* names of the same request are still the ones the run schedules and
\* attempts.
C23_UnknownNamesAreDropped ==
  /\ (/\ Prep
      /\ args.servers # <<>>
      /\ config.shape = "dict") =>
       /\ Range(attempts) \subseteq Range(ConfigKeys(config))
       /\ Range(sched) = Range(args.servers) \cap Range(ConfigKeys(config))
       /\ (pc = "crashed" => attempts # <<>>)
       /\ (pc = "done" => Range(attempts) = Range(sched))
  /\ (/\ strategy = "launcher"
      /\ pc \in {"connect", "await", "done"}
      /\ config.shape = "dict") =>
       /\ Range(attempts) \subseteq Range(ConfigKeys(config))
       /\ Range(sched) = Range(server_names) \cap Range(ConfigKeys(config))
       /\ (pc = "done" => Range(attempts) = Range(sched))

C23_Witness ==
  /\ Prep
  /\ pc = "done"
  /\ "ghost" \in Range(args.servers)
  /\ "ghost" \notin Range(attempts)
  /\ "filesystem" \in Range(attempts)

\* C24: when the command line names providers, every provider the run
\* contacts is one of the names given, whatever the other flags are.
C24_OnlyRequestedProvidersContacted ==
  (strategy = "launcher" /\ args.servers # <<>>) =>
    Range(attempts) \subseteq Range(args.servers)

\* C25: with --fallback-only the launcher installs the fallback agent,
\* attempts no connection and does not exit non-zero, with or without
\* --safe-mode (the fallback agent's module being importable).
C25_FallbackOnlyCompletes ==
  (/\ strategy = "launcher"
   /\ args.fallback_only
   /\ pc # "main"
   /\ "fallback_import_error" \notin log) =>
    /\ root_agent = "fallback"
    /\ attempts = <<>>
    /\ pc # "crashed"

C27_InitializeAndPrepareNeverRaises ==
  (/\ strategy = "launcher"
   /\ ignore_errors
   /\ ~args.fallback_only) =>
    /\ error = NoError
    /\ pc # "crashed"

\* C28: when Ctrl-C ends a run after a provider session was opened, no
\* session is left open when the process exits.
C28_InterruptClosesSessions ==
  pc = "interrupted" => \A n \in Names : session[n] # "open"

\* C29: whatever load_mcp_config returns, the orchestrator resolves its
\* providers from it without an exception.
C29_LoadedConfigResolves ==
  strategy \in {"mcp", "safe", "main"} => error # Exc("AttributeError", 0)

\* C30: in both preparation strategies a provider whose entry lacks command
\* or args counts as one failed provider: the run does not abort, and the
\* providers scheduled after it are attempted before the run is done.
C30_EntryWithoutCommandIsOneFailure ==
  (/\ Prep
   /\ config.shape = "dict"
   /\ \E i \in 1..Len(sched) : EntryKind(config, sched[i]) = "nokey") =>
    /\ pc # "crashed"
    /\ error = NoError
    /\ (pc = "done" => attempts = sched)

\* C31: after a preparation run completes (its save, when it has one, having
\* succeeded), test_tool_cache() is true exactly when a provider returned a
\* tool in that run.
C31_CacheTestTellsRunSucceeded ==
  (/\ Prep
   /\ pc = "done"
   /\ (sched # <<>> => persisted)) =>
    (test_tool_cache(cacheFile) <=> Succeeded # {})

\* the isolated strategy is between two attempts or past the last one:
\* connect_to_mcp_server has returned
SafeAttemptReturned ==
  /\ strategy = "safe"
  /\ pc \in {"connect", "persist", "dump", "done"}
  /\ results # <<>>

\* C32: in the isolated strategy the parent never reads a result file that
\* the worker has created but not finished writing.  (A result file the
\* parent could read is removed by it, so one that is still partly written
\* when connect_to_mcp_server has returned is one the parent failed to read.)
C32_ParentReadsWholeResult ==
  SafeAttemptReturned => resultFile # "partial"

\* C33: in the isolated strategy the parent terminates the worker only when
\* the deadline has elapsed.
C33_KillOnlyAfterDeadline ==
  (strategy = "safe" /\ worker = "killed") => deadline

\* C34: when the isolated strategy's connect_to_mcp_server has returned,
\* neither the worker script nor the result file of the attempt is on disk.
C34_NoTemporaryFileLeft ==
  SafeAttemptReturned => (scriptFile = FALSE /\ resultFile = "absent")

\* the retry loop of initialize_and_prepare is over
RetryLoopOver ==
  /\ strategy = "launcher"
  /\ pc \in {"done", "crashed"}
  /\ ~args.fallback_only
  /\ error # Exc("AttributeError", 0)

\* the calls of initialize_agent so far: those that raised, and the one that
\* is running or has returned
Calls ==
  retry_count + (IF pc \in {"connect", "await", "interrupted"} \/ "attempt_ok" \in log
                 THEN 1 ELSE 0)

C36_ToolsOfLastCallOnly ==
  (Inproc /\ root_agent = "enhanced" /\ pc \in {"serving", "done"}) =>
    agent_tools = BuiltinTools \o Flatten(results)

\* C37: while initialize_agent connects, the registry of active connections
\* only grows: the entry an attempt of the call has added is still that
\* attempt's entry afterwards, whatever the other attempts do.
C37_RegistryIsAppendOnly ==
  (Inproc /\ pc \in {"connect", "await", "done", "serving"}) =>
    \A i \in 1..Len(results) :
      results[i].tools # <<>> => <<results[i].name, CallNo, i>> \in active_connections

\* C39: for every list of provider names the order chosen by initialize_agent
\* is the order chosen by the preparation scripts: what one scheduler emits is
\* what the other emits for the same list.
C39_SchedulersAgree ==
  pc = "scheduled" =>
    sched = IF strategy = "launcher" THEN Prioritize(server_names)
                                     ELSE SortByPriority(server_names)

\* the name set of each capability part of the instruction
PartTools ==
  [p \in {"weather", "filesystem", "search", "memory", "github", "browser",
          "calendar", "email", "airbnb", "elevenlabs"} |->
     CASE p = "weather"    -> {"get_weather"}
       [] p = "filesystem" -> filesystem_tools
       [] p = "search"     -> search_tools
       [] p = "memory"     -> memory_tools
       [] p = "github"     -> github_tools
       [] p = "browser"    -> browser_tools
       [] p = "calendar"   -> calendar_tools
       [] p = "email"      -> email_tools
       [] p = "airbnb"     -> airbnb_tools
       [] OTHER            -> elevenlabs_tools]

\* the order in which the parts of an instruction may appear
PartOrder == << "header", "weather", "filesystem", "search", "memory", "github",
               "browser", "calendar", "email", "airbnb", "elevenlabs", "footer" >>

\* C38: the instruction holds a capability's part exactly when a tool name of
\* that capability's name set is available, and its parts are in one fixed
\* order, whatever the order in which the tools were discovered.
C38_InstructionFollowsTools ==
  instruction # <<>> =>
    /\ \A p \in DOMAIN PartTools :
         p \in Range(instruction) <=> PartTools[p] \cap Range(available_tools) # {}
    /\ \A i, j \in 1..Len(instruction) :
         i < j => PosIn(PartOrder, instruction[i]) < PosIn(PartOrder, instruction[j])
    /\ instruction[1] = "header"
    /\ instruction[Len(instruction)] = "footer"

C38_Witness ==
  /\ available_tools = <<"send_email", "list_events">>
  /\ instruction = <<"header", "calendar", "email", "footer">>

\* C19: a launcher run whose configuration defines no provider ends without
\* any backoff wait, with the fallback tool set and the switch to the fallback
\* agent reported.
C19_EmptyConfigIsDegraded ==
  (strategy = "launcher" /\ pc = "done" /\ ignore_errors
     /\ config.shape = "dict" /\ ConfigKeys(config) = <<>>)
    => /\ waits = <<>>
       /\ retry_count = 0
       /\ FinalTools = FallbackTools
       /\ "fallback_switch" \in log

\* C20: what initialize_and_prepare hands to its caller after a run that
\* switched to the fallback agent differs from what it hands over after a
\* successful initialisation: such a run is not reported as initialised.
C20_DegradedIsNotReportedAsSuccess ==
  (strategy = "launcher" /\ pc = "done" /\ "fallback_switch" \in log)
    => "initialized" \notin log

====
